---------------------------- MODULE Spec2Model ----------------------------
(***************************************************************************)
(* Model of the FieldLTU chip (core/src/field/mod.rs) and of the proof     *)
(* shape configuration (crates/core/machine/src/riscv/shape.rs).           *)
(*                                                                         *)
(* u32 values are pairs <<hi, lo>> of 16-bit limbs so that the wrapping    *)
(* 32-bit arithmetic of the trace generator keeps its width.  Field        *)
(* elements are canonical representatives 0..P-1 of the BabyBear field.    *)
(***************************************************************************)
EXTENDS Integers, Sequences, FiniteSets, TLC

VARIABLES
    field_events,        \* ExecutionRecord.field_events of the input record
    gen_status,          \* "idle" | "done" | "panicked": outcome of generate_trace
    rows,                \* the physical rows collected before padding
    trace,               \* the padded trace returned by generate_trace
    decomp,              \* operands, difference and bits of one witness computation
    local_packed,        \* the physical row eval is looking at
    row_kind,            \* "none" | "padding" | "candidate": where that row comes from
    asserts,             \* per packed sub-row, the value of every registered constraint
    receives,            \* per packed sub-row, the received interaction and its multiplicity
    allowed_log_heights, \* CoreShapeConfig.allowed_log_heights
    program,             \* Program: preprocessed_shape
    record,              \* an ExecutionRecord of that program: shape
    last_call,           \* the last shape-fixing call: operation, heights, outcome
    pp_fixed,            \* whether a fix_preprocessed_shape call has returned
    shape_iter,          \* the iterator of generate_all_allowed_shapes (chip order, position)
    yielded              \* the shapes that iterator has yielded so far

vars == <<field_events, gen_status, rows, trace, decomp, local_packed, row_kind,
          asserts, receives, allowed_log_heights, program, record, last_call,
          pp_fixed, shape_iter, yielded>>

genVars   == <<field_events, gen_status, rows, trace>>
evalVars  == <<local_packed, row_kind, asserts, receives>>
shapeVars == <<allowed_log_heights, program, record, last_call, pp_fixed>>
enumVars  == <<shape_iter, yielded>>

\* Option<T>: None is the empty sequence, Some(x) the sequence of x alone
None == <<>>
Some(x) == <<x>>
Unwrap(o) == o[1]

-----------------------------------------------------------------------------
(* Bounds of the model *)

MaxEvents == 10        \* longest event list fed to generate_trace
MaxHeights == 2        \* longest allowed-height list of an enumerated configuration
MaxAirs == 2           \* most chips reported by one heights() call

-----------------------------------------------------------------------------
(* Program constants *)

WIDTH == 4
LTU_NB_BITS == 29

\* The BabyBear prime 2^31 - 2^27 + 1, the field the machine is instantiated with
P == 15 * (2 ^ 27) + 1

Pow2(n) == 2 ^ n

-----------------------------------------------------------------------------
(* Field arithmetic on canonical representatives *)

FAdd(x, y) == IF x >= P - y THEN x - (P - y) ELSE x + y

FSub(x, y) == IF x >= y THEN x - y ELSE x + (P - y)

FDouble(x) == FAdd(x, x)

\* x * d for a hexadecimal digit d
MulDigit(x, d) ==
    LET x2 == FDouble(x)
        x4 == FDouble(x2)
        x8 == FDouble(x4)
    IN  FAdd(FAdd(IF d % 2 = 1 THEN x ELSE 0, IF (d \div 2) % 2 = 1 THEN x2 ELSE 0),
             FAdd(IF (d \div 4) % 2 = 1 THEN x4 ELSE 0, IF d \div 8 = 1 THEN x8 ELSE 0))

\* x * y, one hexadecimal digit of y at a time
RECURSIVE MulBy(_, _)
MulBy(x, y) ==
    IF y = 0 THEN 0
    ELSE FAdd(FDouble(FDouble(FDouble(FDouble(MulBy(x, y \div 16))))),
              MulDigit(x, y % 16))

FMul(x, y) == IF x < y THEN MulBy(y, x) ELSE MulBy(x, y)

FZero == 0
FOne == 1

from_bool(v) == IF v THEN FOne ELSE FZero

-----------------------------------------------------------------------------
(* u32 arithmetic on 16-bit limbs *)

Limb == 2 ^ 16

U32Of(n) == <<n \div Limb, n % Limb>>

wrapping_sub(x, y) ==
    LET lo == x[2] - y[2]
        borrow == IF lo < 0 THEN 1 ELSE 0
        hi == x[1] - y[1] - borrow
    IN  <<hi % Limb, lo % Limb>>

wrapping_add(x, y) ==
    LET lo == x[2] + y[2]
        carry == lo \div Limb
        hi == x[1] + y[1] + carry
    IN  <<hi % Limb, lo % Limb>>

\* 1 << i on u32, 0 <= i < 32
Shl1(i) == IF i < 16 THEN <<0, Pow2(i)>> ELSE <<Pow2(i - 16), 0>>

\* (x >> i) & 1
ShrAnd1(x, i) ==
    IF i < 16 THEN (x[2] \div Pow2(i)) % 2 ELSE (x[1] \div Pow2(i - 16)) % 2

U32Geq(x, y) == x[1] > y[1] \/ (x[1] = y[1] /\ x[2] >= y[2])

U32Lt(x, y) == ~U32Geq(x, y)

\* F::from_canonical_u32: the field element of a u32 (reduced modulo P)
from_canonical_u32(x) == FAdd(FMul(x[1] % P, Limb), x[2])

-----------------------------------------------------------------------------
(* FieldLTUChip: column layout and trace generation *)

DiffBitIdx == 1 .. (LTU_NB_BITS + 1)

\* [F::zero(); NUM_FIELD_COLS] seen through FieldLTUCols
ZeroCols ==
    [lt |-> FZero, b |-> FZero, c |-> FZero,
     diff_bits |-> [i \in DiffBitIdx |-> FZero], is_real |-> FZero]

\* [F::zero(); NUM_FIELD_COLS * WIDTH] seen through PackedFieldLTUCols
ZeroRow == [i \in 1 .. WIDTH |-> ZeroCols]

\* let diff = event.b.wrapping_sub(event.c).wrapping_add(1 << LTU_NB_BITS)
DiffNoOffset(b, c) == wrapping_sub(b, c)
Diff(b, c) == wrapping_add(wrapping_sub(b, c), Shl1(LTU_NB_BITS))

\* the bits (diff >> i) & 1, i in 0 .. LTU_NB_BITS, as integers
DiffBitsOf(diff) == [i \in DiffBitIdx |-> ShrAnd1(diff, i - 1)]

\* if diff >= max { panic!("diff overflow") } with max = 1 << LTU_NB_BITS
DiffOverflow(event) == U32Geq(Diff(event.b, event.c), Shl1(LTU_NB_BITS))

\* The values the loop body assigns to its local `cols`
ComputeCols(cols, event) ==
    LET diff == Diff(event.b, event.c)
        bits == DiffBitsOf(diff)
    IN  [cols EXCEPT
           !.b = from_canonical_u32(event.b),
           !.c = from_canonical_u32(event.c),
           !.diff_bits = [i \in DiffBitIdx |-> from_canonical_u32(U32Of(bits[i]))],
           !.lt = from_bool(event.ltu),
           !.is_real = FOne]

\* `let mut cols = packed_cols.packed_chips[i]` copies the Copy struct out of the
\* row: the assignments to `cols` never reach `row`.
StoreCols(row, i, cols) == row

\* The closure of the parallel map: one physical row per chunk of events
RECURSIVE FillRow(_, _, _)
FillRow(row, events, i) ==
    IF i > Len(events) THEN row
    ELSE FillRow(StoreCols(row, i, ComputeCols(row[i], events[i])), events, i + 1)

PackedRowOf(events) == FillRow(ZeroRow, events, 1)

\* slice.par_chunks_exact(n): the complete chunks, in order; the remainder is left out
ChunksAll(s, n) ==
    [k \in 1 .. ((Len(s) + n - 1) \div n) |->
        SubSeq(s, (k - 1) * n + 1, IF k * n <= Len(s) THEN k * n ELSE Len(s))]
par_chunks_exact(s, n) ==
    [k \in 1 .. (Len(s) \div n) |-> SubSeq(s, (k - 1) * n + 1, k * n)]

\* usize::next_power_of_two
RECURSIVE NextPow2From(_, _)
NextPow2From(n, p) == IF p >= n THEN p ELSE NextPow2From(n, 2 * p)
next_power_of_two(n) == NextPow2From(n, 1)

\* utils::pad_to_power_of_two: all-zero rows appended up to the next power of two
pad_to_power_of_two(rs) ==
    rs \o [k \in 1 .. (next_power_of_two(Len(rs)) - Len(rs)) |-> ZeroRow]

\* generate_trace as a function of the record's field events
generate_trace(events) ==
    LET chunks == par_chunks_exact(events, WIDTH)
        panics == \E k \in 1 .. Len(chunks) :
                     \E i \in 1 .. Len(chunks[k]) : DiffOverflow(chunks[k][i])
        rs == [k \in 1 .. Len(chunks) |-> PackedRowOf(chunks[k])]
    IN  IF panics
        THEN [status |-> "panicked", rows |-> <<>>, trace |-> <<>>]
        ELSE [status |-> "done", rows |-> rs, trace |-> pad_to_power_of_two(rs)]

-----------------------------------------------------------------------------
(* FieldLTUChip::eval: the constraints registered for one packed sub-row *)

\* builder.assert_bool(x): x * (x - 1) = 0
assert_bool(x) == FMul(x, FSub(x, FOne))

\* builder.assert_eq(a, b): a - b = 0
assert_eq(a, b) == FSub(a, b)

\* builder.when(cond).assert_eq(a, b): cond * (a - b) = 0
WhenAssertEqUngated(cond, a, b) == FSub(a, b)
when_assert_eq(cond, a, b) == FMul(cond, FSub(a, b))

Cube(x) == FMul(FMul(x, x), x)

\* diff += local.diff_bits[i] * from_canonical_u32(1 << i), i in 0 .. LTU_NB_BITS
RECURSIVE DiffSumRange(_, _, _)
DiffSumRange(bits, lo, hi) ==
    IF lo > hi THEN FZero
    ELSE IF lo = hi THEN FMul(bits[lo], from_canonical_u32(Shl1(lo - 1)))
    ELSE LET mid == (lo + hi) \div 2
         IN  FAdd(DiffSumRange(bits, lo, mid), DiffSumRange(bits, mid + 1, hi))

DiffSum(bits, n) == DiffSumRange(bits, 1, n)

\* the right-hand side of "Assert that the output is correct"
OutputOfTopBitUncomplemented(top) == top
OutputOfTopBit(top) == FSub(FOne, top)

\* Every constraint of the closure body, as the value that has to be zero
EvalCols(local) ==
    [dummy |-> assert_eq(Cube(local.b), Cube(local.b)),
     lt_bool |-> assert_bool(local.lt),
     bits_bool |-> [i \in DiffBitIdx |-> assert_bool(local.diff_bits[i])],
     decomposition |->
        when_assert_eq(local.is_real,
                       FAdd(FSub(local.b, local.c), from_canonical_u32(Shl1(LTU_NB_BITS))),
                       DiffSum(local.diff_bits, LTU_NB_BITS + 1)),
     output |->
        when_assert_eq(local.is_real, local.lt,
                       OutputOfTopBit(local.diff_bits[LTU_NB_BITS + 1]))]

\* builder.receive_field_op(local.lt, local.b, local.c, local.is_real)
ReceiveOf(local) ==
    [values |-> <<local.lt, local.b, local.c>>, multiplicity |-> local.is_real]

\* The gated constraints hold / all constraints hold, for one sub-row's values
GatedHold(a) == a.decomposition = FZero /\ a.output = FZero

AllHold(a) ==
    /\ a.dummy = FZero
    /\ a.lt_bool = FZero
    /\ \A i \in DiffBitIdx : a.bits_bool[i] = FZero
    /\ GatedHold(a)

-----------------------------------------------------------------------------
(* Inputs of the chip *)

InRange(x) == U32Lt(x, Shl1(LTU_NB_BITS))

Event(b, c, ltu) == [b |-> U32Of(b), c |-> U32Of(c), ltu |-> ltu]

\* The field events the executor appends, FieldEvent { ltu, b, c }: b < c,
\* b >= c, and an operand outside [0, 2^LTU_NB_BITS)
EventSamples ==
    {Event(5, 10, TRUE), Event(10, 5, FALSE), Event(Pow2(LTU_NB_BITS + 1), 0, FALSE)}

\* u32 operands for the witness computation, in and out of [0, 2^LTU_NB_BITS)
OperandSamples ==
    {U32Of(n) : n \in {0, 1, 5, 10, Limb - 1, Limb, Pow2(28), Pow2(28) + 1,
                       Pow2(LTU_NB_BITS) - 2, Pow2(LTU_NB_BITS) - 1,
                       Pow2(LTU_NB_BITS), Pow2(30) + 7}}
      \cup {<<Limb \div 2, 5>>, <<Limb - 1, Limb - 1>>}

-----------------------------------------------------------------------------
(* Initial values *)

GenInit ==
    /\ field_events = <<>>
    /\ gen_status = "idle"
    /\ rows = <<>>
    /\ trace = <<>>

DecompInit == decomp = None

EvalInit ==
    /\ local_packed = <<>>
    /\ row_kind = "none"
    /\ asserts = <<>>
    /\ receives = <<>>

-----------------------------------------------------------------------------
(* Trace generation *)

\* The executor appends a field event to the record
AddEvent(e) ==
    /\ gen_status = "idle"
    /\ Len(field_events) < MaxEvents
    /\ field_events' = Append(field_events, e)
    /\ UNCHANGED <<gen_status, rows, trace>>
    /\ UNCHANGED <<decomp, evalVars, shapeVars, enumVars>>

\* FieldLTUChip::generate_trace(input, _output)
GenerateTrace ==
    /\ gen_status = "idle"
    /\ LET r == generate_trace(field_events)
       IN  /\ gen_status' = r.status
           /\ rows' = r.rows
           /\ trace' = r.trace
    /\ UNCHANGED field_events
    /\ UNCHANGED <<decomp, evalVars, shapeVars, enumVars>>

-----------------------------------------------------------------------------
(* The witness computation of one event, on its own *)

Decompose(b, c) ==
    /\ decomp = None
    /\ decomp' = Some([b |-> b, c |-> c, diff |-> Diff(b, c),
                       bits |-> DiffBitsOf(Diff(b, c))])
    /\ UNCHANGED <<genVars, evalVars, shapeVars, enumVars>>

-----------------------------------------------------------------------------
(* Constraint evaluation on one physical row *)

Eval(row, kind) ==
    /\ row_kind = "none"
    /\ local_packed' = row
    /\ row_kind' = kind
    /\ asserts' = [j \in 1 .. WIDTH |-> EvalCols(row[j])]
    /\ receives' = [j \in 1 .. WIDTH |-> ReceiveOf(row[j])]
    /\ UNCHANGED <<genVars, decomp, shapeVars, enumVars>>

\* eval on a row that padding appended to a generated trace
EvalPadding ==
    \E e \in {x \in EventSamples : ~DiffOverflow(x)}, n \in 0 .. MaxEvents :
        LET r == generate_trace([k \in 1 .. n |-> e])
        IN  \E i \in (Len(r.rows) + 1) .. Len(r.trace) : Eval(r.trace[i], "padding")

\* Field values a prover may put in the operand cells
EvalOperands ==
    {0, 5, 10, Pow2(LTU_NB_BITS) - 1, Pow2(LTU_NB_BITS), P - 1}

\* the low LTU_NB_BITS + 1 bits of v
BitsOfValue(v) == [i \in DiffBitIdx |-> (v \div Pow2(i - 1)) % 2]

\* the same weighted sum with the top bit moved into a non-boolean cell below it
Unnormalised(bits) ==
    LET n == LTU_NB_BITS + 1
    IN  IF bits[n] = 1
        THEN [bits EXCEPT ![n] = 0, ![n - 1] = FAdd(@, 2)]
        ELSE [bits EXCEPT ![n] = 1, ![n - 1] = FSub(@, 2)]

CandidateBits(b, c) ==
    LET honest == BitsOfValue(FAdd(FSub(b, c), Pow2(LTU_NB_BITS)))
    IN  {honest, Unnormalised(honest), BitsOfValue(0), BitsOfValue(Pow2(LTU_NB_BITS) + 5)}

\* eval on a row whose sub-row j holds values chosen by the prover
EvalCandidate ==
    \E j \in 1 .. WIDTH, b \in EvalOperands, c \in EvalOperands,
       lt \in {0, 1, 2}, real \in {0, 1} :
        \E bits \in CandidateBits(b, c) :
            Eval([ZeroRow EXCEPT ![j] = [lt |-> lt, b |-> b, c |-> c,
                                         diff_bits |-> bits, is_real |-> real]],
                 "candidate")

-----------------------------------------------------------------------------
(* CoreShapeConfig *)

PreprocessedAirs == {"Program", "ProgramMemory"}

CoreAirs == {"Cpu", "DivRem", "Add", "Bitwise", "Mul", "ShiftRight", "ShiftLeft",
             "Lt", "MemoryInit", "MemoryFinal"}

\* MachineAir::name of each RiscvAir variant
ChipName(air) ==
    CASE air = "Program" -> "Program"
      [] air = "ProgramMemory" -> "MemoryProgram"
      [] air = "Cpu" -> "CPU"
      [] air = "DivRem" -> "DivRem"
      [] air = "Add" -> "AddSub"
      [] air = "Bitwise" -> "Bitwise"
      [] air = "Mul" -> "Mul"
      [] air = "ShiftRight" -> "ShiftRight"
      [] air = "ShiftLeft" -> "ShiftLeft"
      [] air = "Lt" -> "Lt"
      [] air = "MemoryInit" -> "MemoryInit"
      [] air = "MemoryFinal" -> "MemoryFinalize"

\* impl Default for CoreShapeConfig
DefaultConfig ==
    [air \in PreprocessedAirs \cup CoreAirs |->
        CASE air \in PreprocessedAirs -> <<10, 16, 21, 22>>
          [] air = "Cpu" -> <<16, 20, 21, 22>>
          [] air \in {"DivRem", "Add", "Bitwise", "Mul"} -> <<10, 16, 20, 21, 22>>
          [] OTHER -> <<10, 18, 20, 21, 22>>]

\* for &allowed_log_height in list { if height <= 1 << allowed_log_height { return } }
RECURSIVE FirstFitStrict(_, _, _)
FirstFitStrict(list, height, i) ==
    IF i > Len(list) THEN None
    ELSE IF height < Pow2(list[i]) THEN Some(list[i])
    ELSE FirstFitStrict(list, height, i + 1)

RECURSIVE FirstFit(_, _, _)
FirstFit(list, height, i) ==
    IF i > Len(list) THEN None
    ELSE IF height <= Pow2(list[i]) THEN Some(list[i])
    ELSE FirstFit(list, height, i + 1)

FirstAllowedStrict(list, height) == FirstFitStrict(list, height, 1)
FirstAllowed(list, height) == FirstFit(list, height, 1)

\* The map over (air, height) and its collect: None when the closure panics
SelectShape(cfg, heights) ==
    IF \E air \in DOMAIN heights :
          air \notin DOMAIN cfg \/ FirstAllowed(cfg[air], heights[air]) = None
    THEN None
    ELSE Some([name \in {ChipName(air) : air \in DOMAIN heights} |->
            LET air == CHOOSE a \in DOMAIN heights : ChipName(a) = name
            IN  Unwrap(FirstAllowed(cfg[air], heights[air]))])

\* if program.preprocessed_shape.is_some() { panic!(..) }
PreprocessedAlreadyFixed(prog) == prog.preprocessed_shape # None

\* if record.program.preprocessed_shape.is_none() { panic!(..) }
ProgramGuardOff(prog) == FALSE
ProgramShapeNotSet(prog) == prog.preprocessed_shape = None

\* if record.shape.is_some() { panic!(..) }
ShapeGuardOff(rec) == FALSE
ShapeAlreadyFixed(rec) == rec.shape # None

\* Natural heights reported for a chip
NaturalHeights ==
    {1, Pow2(10), Pow2(10) + 1, Pow2(18), Pow2(22), Pow2(22) + 1}

\* The core chips whose heights a call varies (one of each allowed-height list)
SampleCoreAirs == {"Cpu", "DivRem", "Lt"}

\* What RiscvAir::preprocessed_heights / RiscvAir::heights report: chip -> height
HeightReports(airs) ==
    UNION {[S -> NaturalHeights] :
             S \in {T \in SUBSET airs : T # {} /\ Cardinality(T) <= MaxAirs}}

Call(op, heights, result) == [op |-> op, heights |-> heights, result |-> result]

ShapeInit ==
    /\ allowed_log_heights = DefaultConfig
    /\ program = [preprocessed_shape |-> None]
    /\ record = [shape |-> None]
    /\ last_call = Call("none", None, "none")
    /\ pp_fixed = FALSE

\* CoreShapeConfig::fix_preprocessed_shape(&self, program); the heights are
\* RiscvAir::preprocessed_heights(program), computed once the guard has passed
fix_preprocessed_shape ==
    /\ IF PreprocessedAlreadyFixed(program)
       THEN /\ last_call' = Call("fix_preprocessed_shape", None,
                                 "panic: cannot fix preprocessed shape twice")
            /\ UNCHANGED <<program, pp_fixed>>
       ELSE \E heights \in HeightReports(PreprocessedAirs) :
            LET shape == SelectShape(allowed_log_heights, heights)
            IN  IF shape = None
                THEN /\ last_call' = Call("fix_preprocessed_shape", Some(heights),
                                          "panic: air not allowed at height")
                     /\ UNCHANGED <<program, pp_fixed>>
                ELSE /\ program' = [program EXCEPT !.preprocessed_shape = Some(Unwrap(shape))]
                     /\ pp_fixed' = TRUE
                     /\ last_call' = Call("fix_preprocessed_shape", Some(heights), "ok")
    /\ UNCHANGED <<allowed_log_heights, record>>
    /\ UNCHANGED <<genVars, decomp, evalVars, enumVars>>

\* CoreShapeConfig::fix_shape(&self, record); the heights are
\* RiscvAir::heights(record), computed once both guards have passed
fix_shape ==
    /\ IF ProgramShapeNotSet(program)
       THEN /\ last_call' = Call("fix_shape", None, "panic: program shape not set")
            /\ UNCHANGED record
       ELSE IF ShapeAlreadyFixed(record)
       THEN /\ last_call' = Call("fix_shape", None, "panic: cannot fix shape twice")
            /\ UNCHANGED record
       ELSE \E heights \in HeightReports(SampleCoreAirs) :
            LET shape == SelectShape(allowed_log_heights, heights)
            IN  IF shape = None
                THEN /\ last_call' = Call("fix_shape", Some(heights),
                                          "panic: air not allowed at height")
                     /\ UNCHANGED record
                ELSE /\ record' = [record EXCEPT !.shape = Some(Unwrap(shape))]
                     /\ last_call' = Call("fix_shape", Some(heights), "ok")
    /\ UNCHANGED <<allowed_log_heights, program, pp_fixed>>
    /\ UNCHANGED <<genVars, decomp, evalVars, enumVars>>

-----------------------------------------------------------------------------
(* CoreShapeConfig::generate_all_allowed_shapes *)

\* once((name, None)).chain(heights.iter().map(|height| (name, Some(*height))))
ChipOptionsNoAbsent(cfg, air) == [i \in 1 .. Len(cfg[air]) |-> Some(cfg[air][i])]
ChipOptions(cfg, air) == <<None>> \o [i \in 1 .. Len(cfg[air]) |-> Some(cfg[air][i])]

\* Number of tuples of multi_cartesian_product over the chips order[k .. ]
RECURSIVE ProductFrom(_, _, _)
ProductFrom(cfg, order, k) ==
    IF k > Len(order) THEN 1
    ELSE Len(ChipOptions(cfg, order[k])) * ProductFrom(cfg, order, k + 1)

\* The tuple at position pos (from 0): the last iterator advances fastest
TupleAt(cfg, order, pos) ==
    [k \in 1 .. Len(order) |->
        LET opts == ChipOptions(cfg, order[k])
        IN  opts[((pos \div ProductFrom(cfg, order, k + 1)) % Len(opts)) + 1]]

\* filter_map(|(name, maybe_height)| ..).collect::<ProofShape>()
CollectShape(order, tuple) ==
    [name \in {ChipName(order[k]) : k \in {i \in 1 .. Len(order) : tuple[i] # None}} |->
        LET k == CHOOSE i \in 1 .. Len(order) : ChipName(order[i]) = name
        IN  Unwrap(tuple[k])]

\* Configurations small enough to enumerate: ascending duplicate-free lists
EnumAirs == {"Cpu", "ShiftRight", "Lt"}
HeightPool == {16, 18, 20}

RECURSIVE SortedSeq(_)
SortedSeq(S) ==
    IF S = {} THEN <<>>
    ELSE LET m == CHOOSE x \in S : \A y \in S : x <= y
         IN  <<m>> \o SortedSeq(S \ {m})

AllowedLists ==
    {SortedSeq(S) : S \in {T \in SUBSET HeightPool :
                              T # {} /\ Cardinality(T) <= MaxHeights}}

EnumConfigs ==
    UNION {[S -> AllowedLists] : S \in (SUBSET EnumAirs) \ {{}}}

\* The orders in which a HashMap over the chips S may iterate
Orders(S) ==
    {o \in [1 .. Cardinality(S) -> S] : \A i, j \in DOMAIN o : o[i] = o[j] => i = j}

EnumInit ==
    /\ shape_iter = None
    /\ yielded = <<>>

\* generate_all_allowed_shapes(&self): the lazy iterator is created
GenerateAllAllowedShapes(order) ==
    /\ shape_iter = None
    /\ shape_iter' = Some([order |-> order, pos |-> 0, exhausted |-> FALSE])
    /\ UNCHANGED yielded
    /\ UNCHANGED <<genVars, decomp, evalVars, shapeVars>>

\* Iterator::next on it
IterNext ==
    /\ shape_iter # None
    /\ LET it == Unwrap(shape_iter)
       IN  /\ ~it.exhausted
           /\ IF it.pos < ProductFrom(allowed_log_heights, it.order, 1)
              THEN /\ yielded' = Append(yielded,
                           CollectShape(it.order,
                               TupleAt(allowed_log_heights, it.order, it.pos)))
                   /\ shape_iter' = Some([it EXCEPT !.pos = @ + 1])
              ELSE /\ shape_iter' = Some([it EXCEPT !.exhausted = TRUE])
                   /\ UNCHANGED yielded
    /\ UNCHANGED <<allowed_log_heights, program, record, last_call, pp_fixed>>
    /\ UNCHANGED <<genVars, decomp, evalVars>>

-----------------------------------------------------------------------------
(* Specifications *)

\* Trace generation of the FieldLTU chip
InitGen == GenInit /\ DecompInit /\ EvalInit /\ ShapeInit /\ EnumInit
NextGen == (\E e \in EventSamples : AddEvent(e)) \/ GenerateTrace
SpecGen == InitGen /\ [][NextGen]_vars

\* The witness computation on sampled operands
InitDecomp == GenInit /\ DecompInit /\ EvalInit /\ ShapeInit /\ EnumInit
NextDecomp == \E b \in OperandSamples, c \in OperandSamples : Decompose(b, c)
SpecDecomp == InitDecomp /\ [][NextDecomp]_vars

\* Constraint evaluation on padding rows and on prover-chosen rows
InitEval == GenInit /\ DecompInit /\ EvalInit /\ ShapeInit /\ EnumInit
NextEval == EvalPadding \/ EvalCandidate
SpecEval == InitEval /\ [][NextEval]_vars

\* Shape fixing under the default configuration
Init == GenInit /\ DecompInit /\ EvalInit /\ ShapeInit /\ EnumInit
Next == fix_preprocessed_shape \/ fix_shape
Spec == Init /\ [][Next]_vars

\* Enumeration of the allowed shapes of a small configuration
InitEnum ==
    /\ GenInit /\ DecompInit /\ EvalInit /\ EnumInit
    /\ allowed_log_heights \in EnumConfigs
    /\ program = [preprocessed_shape |-> None]
    /\ record = [shape |-> None]
    /\ last_call = Call("none", None, "none")
    /\ pp_fixed = FALSE
NextEnum ==
    \/ \E o \in Orders(DOMAIN allowed_log_heights) : GenerateAllAllowedShapes(o)
    \/ IterNext
SpecEnum == InitEnum /\ [][NextEnum]_vars

-----------------------------------------------------------------------------
(* Properties of trace generation *)

\* The event packed at sub-row i of physical row k
EventAt(k, i) == field_events[(k - 1) * WIDTH + i]

CompleteGroups == 1 .. (Len(field_events) \div WIDTH)

\* C1: every event of a complete group of 4 is present in the returned trace at
\* its packed sub-row: is_real = 1, b and c the canonical encodings of the
\* operands, lt the event's flag, diff_bits the N+1 bits of the difference.
C1_EventValuesInTrace ==
    gen_status = "done" =>
        \A k \in CompleteGroups, i \in 1 .. WIDTH :
            LET e == EventAt(k, i)
                cols == trace[k][i]
            IN  /\ cols.is_real = FOne
                /\ cols.b = from_canonical_u32(e.b)
                /\ cols.c = from_canonical_u32(e.c)
                /\ cols.lt = from_bool(e.ltu)
                /\ cols.diff_bits = DiffBitsOf(Diff(e.b, e.c))

\* d fits in n bits
FitsInBits(d, n) == U32Lt(d, Shl1(n))

\* C2: generate_trace aborts only when some difference d does not fit in N+1
\* bits; with all operands in the supported range (b >= c included) it
\* completes.
C2_AbortOnlyOnOverflow ==
    /\ gen_status = "panicked" =>
          \E k \in CompleteGroups, i \in 1 .. WIDTH :
              ~FitsInBits(Diff(EventAt(k, i).b, EventAt(k, i).c), LTU_NB_BITS + 1)
    /\ (gen_status # "idle"
          /\ \A n \in 1 .. Len(field_events) :
                InRange(field_events[n].b) /\ InRange(field_events[n].c))
       => gen_status = "done"

\* C4: the trace holds one physical row per complete group of exactly 4
\* events: floor(n / 4) rows before padding, none for the trailing n mod 4
\* events, and 2 rows for 10 events.
C4_OneRowPerCompleteGroup ==
    gen_status = "done" =>
        /\ Len(rows) = Len(field_events) \div 4
        /\ Len(rows) * 4 + (Len(field_events) % 4) = Len(field_events)
        /\ Len(trace) >= Len(rows)
        /\ SubSeq(trace, 1, Len(rows)) = rows
        /\ (Len(field_events) = 10 => Len(rows) = 2)

C4_Witness ==
    gen_status = "done" /\ Len(field_events) = 10 /\ Len(rows) = 2

-----------------------------------------------------------------------------
(* Properties of the witness computation *)

RECURSIVE ResumRange(_, _, _)
ResumRange(bits, lo, hi) ==
    IF lo > hi THEN 0
    ELSE IF lo = hi THEN bits[lo] * Pow2(lo - 1)
    ELSE LET mid == (lo + hi) \div 2
         IN  ResumRange(bits, lo, mid) + ResumRange(bits, mid + 1, hi)

Resum(bits, n) == ResumRange(bits, 1, n)

\* C3: for operands in the supported range, the N+1 little-endian bits of
\* d = b wrapping-minus c plus 2^N resum to d exactly, and the complement of
\* bit N is the boolean b < c.
C3_DecompositionRoundTrip ==
    decomp # None =>
        LET w == Unwrap(decomp)
        IN  (InRange(w.b) /\ InRange(w.c)) =>
                /\ U32Of(Resum(w.bits, LTU_NB_BITS + 1)) = w.diff
                /\ (1 - w.bits[LTU_NB_BITS + 1] = 1) <=> U32Lt(w.b, w.c)

C3_Witness ==
    /\ decomp # None
    /\ Unwrap(decomp).b = U32Of(5)
    /\ Unwrap(decomp).c = U32Of(Pow2(LTU_NB_BITS) - 1)
    /\ Unwrap(decomp).bits[LTU_NB_BITS + 1] = 0

-----------------------------------------------------------------------------
(* Properties of the constraints *)

\* C9: a padding row (all zero) satisfies every registered constraint, any
\* sub-row with is_real = 0 satisfies the gated constraints whatever b and c
\* are, and its interaction has multiplicity 0.
C9_PaddingInert ==
    row_kind # "none" =>
        /\ row_kind = "padding" =>
              /\ local_packed = ZeroRow
              /\ \A j \in 1 .. WIDTH :
                    AllHold(asserts[j]) /\ receives[j].multiplicity = FZero
        /\ \A j \in 1 .. WIDTH :
              local_packed[j].is_real = FZero =>
                  GatedHold(asserts[j]) /\ receives[j].multiplicity = FZero

C9_Witness ==
    /\ row_kind = "candidate"
    /\ \E j, k \in 1 .. WIDTH :
          /\ j # k
          /\ local_packed[j].is_real = FZero
          /\ local_packed[j].b = 10
          /\ local_packed[j].c = 5
          /\ GatedHold(asserts[j])
          /\ local_packed[k] = ZeroCols
          /\ AllHold(asserts[k])

FieldInRange(x) == x < Pow2(LTU_NB_BITS)

\* C10: a sub-row with is_real = 1 and operands in [0, 2^N) that satisfies
\* all constraints has lt = 1 exactly when b < c, and lt = 0 otherwise.
C10_ConstraintsDecideLt ==
    row_kind # "none" =>
        \A j \in 1 .. WIDTH :
            LET l == local_packed[j]
            IN  (/\ l.is_real = FOne
                 /\ FieldInRange(l.b)
                 /\ FieldInRange(l.c)
                 /\ AllHold(asserts[j]))
                => l.lt = (IF l.b < l.c THEN FOne ELSE FZero)

C10_Witness ==
    /\ row_kind = "candidate"
    /\ \E j \in 1 .. WIDTH :
          /\ local_packed[j].is_real = FOne
          /\ local_packed[j].b = 5
          /\ local_packed[j].c = 10
          /\ local_packed[j].lt = FOne
          /\ AllHold(asserts[j])

-----------------------------------------------------------------------------
(* Properties of shape fixing *)

Range(list) == {list[i] : i \in 1 .. Len(list)}

\* x is the smallest entry of list whose height 2^x holds `height`
IsSmallestFit(x, list, height) ==
    /\ x \in Range(list)
    /\ height <= Pow2(x)
    /\ \A y \in Range(list) : height <= Pow2(y) => x <= y

\* The shape slot the last call was about
TargetShape ==
    IF last_call.op = "fix_preprocessed_shape"
    THEN program.preprocessed_shape ELSE record.shape

\* C5: the log2 height stored for a chip is the smallest entry h of its allowed
\* list with natural height <= 2^h; when even the tallest allowed height is too
\* small the call fails fatally and stores no shape.
C5_SmallestAllowedHeight ==
    /\ last_call.result = "ok" =>
          LET h == Unwrap(last_call.heights)
              stored == Unwrap(TargetShape)
          IN  /\ DOMAIN stored = {ChipName(air) : air \in DOMAIN h}
              /\ \A air \in DOMAIN h :
                    IsSmallestFit(stored[ChipName(air)],
                                  allowed_log_heights[air], h[air])
    /\ last_call.result = "panic: air not allowed at height" =>
          LET h == Unwrap(last_call.heights)
          IN  /\ \E air \in DOMAIN h :
                    \A y \in Range(allowed_log_heights[air]) : Pow2(y) < h[air]
              /\ TargetShape = None
    /\ last_call.heights # None =>
          LET h == Unwrap(last_call.heights)
          IN  (\E air \in DOMAIN h :
                  \A y \in Range(allowed_log_heights[air]) : Pow2(y) < h[air])
              => last_call.result = "panic: air not allowed at height"

C5_Witness ==
    /\ last_call.op = "fix_shape"
    /\ last_call.result = "ok"
    /\ LET h == Unwrap(last_call.heights)
       IN  /\ DOMAIN h = {"DivRem", "Lt"}
           /\ h["DivRem"] = Pow2(10) + 1
           /\ h["Lt"] = Pow2(10)
           /\ Unwrap(record.shape)["DivRem"] = 16
           /\ Unwrap(record.shape)["Lt"] = 10

\* C6: preprocessed_shape and shape change only from unset to set; a fixing
\* call on an already fixed program or record is rejected with a fatal error
\* and leaves the stored shape as it was.
C6_FixedOnce ==
    [][/\ program.preprocessed_shape # None => program' = program
       /\ record.shape # None => record' = record
       /\ (/\ program.preprocessed_shape # None
           /\ last_call' # last_call
           /\ last_call'.op = "fix_preprocessed_shape")
          => last_call'.result = "panic: cannot fix preprocessed shape twice"
       /\ (/\ record.shape # None
           /\ last_call' # last_call
           /\ last_call'.op = "fix_shape")
          => last_call'.result = "panic: cannot fix shape twice"]_vars

C6_Witness ==
    /\ last_call.op = "fix_shape"
    /\ last_call.result = "panic: cannot fix shape twice"
    /\ record.shape # None
    /\ program.preprocessed_shape # None

\* C7: fix_shape on a record whose program has no preprocessed shape fails
\* fatally and leaves the record's shape unset; a record's shape is set only
\* after a fix_preprocessed_shape call on its program has succeeded.
C7_ProgramShapeFirst ==
    /\ [](record.shape # None => (pp_fixed /\ program.preprocessed_shape # None))
    /\ [][program.preprocessed_shape = None =>
            /\ record'.shape = None
            /\ (last_call' # last_call /\ last_call'.op = "fix_shape")
               => last_call'.result = "panic: program shape not set"]_vars

C7_Witness ==
    /\ last_call.op = "fix_shape"
    /\ last_call.result = "panic: program shape not set"
    /\ record.shape = None
    /\ program.preprocessed_shape = None

-----------------------------------------------------------------------------
(* Properties of the enumeration *)

\* Every mapping of a subset of the configured chips to one allowed height each
AllShapes(cfg) ==
    UNION {{f \in [{ChipName(air) : air \in S} -> HeightPool] :
               \A air \in S : f[ChipName(air)] \in Range(cfg[air])} :
           S \in SUBSET DOMAIN cfg}

\* A:[16,20], B:[18]
ExampleConfig ==
    [air \in {"Cpu", "ShiftRight"} |-> IF air = "Cpu" THEN <<16, 20>> ELSE <<18>>]

\* C8: the iterator yields every mapping of a subset of the configured chips to
\* one of that chip's allowed heights (the empty one included), nothing else,
\* and none twice; for A:[16,20], B:[18] that is exactly 6 shapes.
C8_EnumerationExact ==
    /\ \A i, j \in 1 .. Len(yielded) : yielded[i] = yielded[j] => i = j
    /\ \A i \in 1 .. Len(yielded) : yielded[i] \in AllShapes(allowed_log_heights)
    /\ (shape_iter # None /\ Unwrap(shape_iter).exhausted) =>
          /\ {yielded[i] : i \in 1 .. Len(yielded)} = AllShapes(allowed_log_heights)
          /\ allowed_log_heights = ExampleConfig => Len(yielded) = 6

C8_Witness ==
    /\ shape_iter # None
    /\ Unwrap(shape_iter).exhausted
    /\ allowed_log_heights = ExampleConfig
    /\ Len(yielded) = 6

=============================================================================
